---- MODULE Spec2Model ----
(***************************************************************************)
(* A model of the paper-trading engine of haluk365/trading-app:            *)
(*   - MockTrader     (src/js/modules/trading/mockTrader.js)               *)
(*   - RiskManager    (src/js/modules/indicators/rsi.js, from line 569)    *)
(*   - TrailingStop   (src/unnamed/part_002)                               *)
(*   - TimeframeValidator (src/js/modules/trading/timeframeValidator.js)   *)
(*   - SignalGenerator (src/unnamed/part_003)                              *)
(*                                                                         *)
(* Money and prices are integers in thousandths of a USDT (USDT(x)); on   *)
(* PriceGrid the 0.1 % slippage and the 0.04 % fee of the code are exact   *)
(* in that unit, elsewhere a fee is cut to it.  Percentages that the code *)
(* keeps as floats and only ever compares with whole-number limits are     *)
(* kept as their integer part.                                             *)
(*                                                                         *)
(* JavaScript runs one callback at a time.  An async function runs         *)
(* synchronously up to an await; when the awaited value is already there   *)
(* (a cached price) its continuation runs in the microtask queue, before   *)
(* any timer, event or user action, so such a call is one atomic step of   *)
(* the model.  When the awaited value needs the network (a price fetch     *)
(* with a cold cache, the candle fetch of the ATR stop) the call is an     *)
(* entry of `tasks` and other callbacks interleave with it.                *)
(***************************************************************************)
EXTENDS Integers, Sequences, FiniteSets, TLC

VARIABLES
    account,          \* mockAccount
    positions,        \* every position object created; the id is the index
    activePositions,  \* keys of the activePositions Map (insertion order = id order)
    tradeHistory,     \* tradeHistory
    closedEvents,     \* number of mockTrader.position_closed events per position id
    openedEvents,     \* number of mockTrader.position_opened events
    cache,            \* Storage.cache ticker_<symbol> price, 0 when absent/expired
    tasks,            \* async calls suspended on the network
    resets,           \* number of resetAccount calls
    activeTrails,     \* TrailingStop.activeTrails: position id -> trailing object
    trailingHistory,  \* TrailingStop.trailingHistory: position ids of the stopped trailings
    riskProfile,      \* RiskManager riskProfile: level and maxPositions
    emergencyMode,    \* RiskManager emergencyMode
    dailyStats,       \* RiskManager dailyStats
    emergencyActions, \* how the last finished run of executeEmergencyActions ended
    emergencyActivations, \* number of riskManager.emergency_mode_activated events
    days,             \* number of daily resets
    sessions,         \* every validation object created; the id is the index
    validationCache,  \* keys of TimeframeValidator validationCache
    validationHistory, \* TimeframeValidator validationHistory
    lastAnalysis,     \* SignalGenerator lastAnalysis
    signalReturns,    \* the arguments and the resolved value of each analyzeSymbol call
    signalChanged     \* the signalGenerator.signal_changed events: old and new signal

worldVars == <<account, positions, activePositions, tradeHistory, closedEvents,
               openedEvents, activeTrails, trailingHistory>>

traderVars == <<account, positions, activePositions, tradeHistory, closedEvents,
                openedEvents, cache, tasks, resets>>

trailVars == <<activeTrails, trailingHistory>>

riskVars == <<riskProfile, emergencyMode, dailyStats, emergencyActions,
              emergencyActivations, days>>

validatorVars == <<sessions, validationCache, validationHistory>>

signalVars == <<lastAnalysis, signalReturns, signalChanged>>

vars == <<traderVars, trailVars, riskVars, validatorVars, signalVars>>

----------------------------------------------------------------------------
(* Units, program constants and bounds                                     *)

USDT(x) == x * 1000

InitialBalance == USDT(10000)
MaxLeverage == 20
DefaultLeverage == 10
SlippagePerMille == 1
TakerFeePer10k == 4
FallbackStopPercent == 2
TrailingStopPercentage == 30
HistoryLimit == 1000
MaxDailyLoss == 10
MaxDrawdown == 15
ProfileMaxPositions == 5
MarginCallLevel == 200
PanicModeThreshold == 25

Symbols == {"BTCUSDT"}
Sides == {"long", "short"}
PriceGrid == {USDT(47500), USDT(52500)}
RiskPriceGrid == {USDT(47500), USDT(48500)}
NoPrice == 0

MaxPositions == 1
RiskMaxPositions == 2
MaxTasks == 2
MaxResets == 1
MaxActivations == 2
MaxDays == 1
MaxSessions == 2
MaxAnalyses == 1
MaxLiveUpdates == 1

----------------------------------------------------------------------------
(* Pure helpers of MockTrader                                              *)

Abs(x) == IF x < 0 THEN -x ELSE x

RECURSIVE SumOver(_, _)
SumOver(f, S) ==
    IF S = {} THEN 0
    ELSE LET x == CHOOSE y \in S : TRUE IN f[x] + SumOver(f, S \ {x})

applySlippage(price, side) ==
    IF side = "long"
    THEN price + (price * SlippagePerMille) \div 1000
    ELSE price - (price * SlippagePerMille) \div 1000

calculateFee(notionalValue) == (notionalValue * TakerFeePer10k) \div 10000

calculatePositionPnL(position, currentPrice) ==
    LET priceChange == currentPrice - position.entryPrice IN
    IF position.side = "long" THEN priceChange * position.size
    ELSE (-priceChange) * position.size

Opposite(side) == IF side = "long" THEN "short" ELSE "long"

\* atr = 0 stands for "ATR unavailable": the flat 2 % fallback
calculateATRStopLoss(entryPrice, side, atr) ==
    LET dist == IF atr # 0 THEN (atr * 3) \div 2
                ELSE (entryPrice * FallbackStopPercent) \div 100 IN
    IF side = "long" THEN entryPrice - dist ELSE entryPrice + dist

\* integer part (floor) of (num / den) * 100 for den > 0, computed in steps
\* that stay within 32-bit integers
Percent(num, den) ==
    LET q == num \div den
        r == num % den
        a == (r * 10) \div den
        b == (r * 10) % den
    IN q * 100 + a * 10 + (b * 10) \div den

----------------------------------------------------------------------------
(* Pure part of the Trailing-Stop Engine (TrailingStop)                    *)

\* setupDefaultConfigs: triggerPercent is kept in tenths, minProfit (a percent)
\* in thousandths of the entry price
TrailingConfig(strategy) ==
    IF strategy = "conservative"
    THEN [type |-> "percentage", triggerTenths |-> 20, trailingPercent |-> 50,
          atrMultiplier |-> 0, breakevenMode |-> "threshold", minProfitPerMille |-> 5]
    ELSE IF strategy = "aggressive"
    THEN [type |-> "percentage", triggerTenths |-> 15, trailingPercent |-> 30,
          atrMultiplier |-> 0, breakevenMode |-> "immediate", minProfitPerMille |-> 2]
    ELSE [type |-> "atr", triggerTenths |-> 20, trailingPercent |-> 0,
          atrMultiplier |-> 2, breakevenMode |-> "progressive", minProfitPerMille |-> 3]

\* the trailing object of startTrailing, trigger price included; atrValue and
\* breakevenPrice are 0 while the code has null / undefined.  seq is the place
\* of the object in the iteration order of the Map activeTrails, which is the
\* order of the calls of activeTrails.set
NewTrailing(position, strategy, seq) ==
    LET config == TrailingConfig(strategy)
        initialRisk == Abs(position.entryPrice - position.stopLoss)
        triggerProfit == (initialRisk * config.triggerTenths) \div 10
    IN [seq |-> seq, strategy |-> strategy, status |-> "waiting", isBreakevenSet |-> FALSE,
        symbol |-> position.symbol, side |-> position.side,
        entryPrice |-> position.entryPrice, currentPrice |-> position.currentPrice,
        initialStopLoss |-> position.stopLoss, currentStopLoss |-> position.stopLoss,
        highestProfit |-> 0, highestPrice |-> position.currentPrice,
        currentProfit |-> 0,
        triggerPrice |-> IF position.side = "long"
                         THEN position.entryPrice + triggerProfit
                         ELSE position.entryPrice - triggerProfit,
        atrValue |-> 0, breakevenPrice |-> 0]

updateProfitMetrics(t) ==
    LET profit == IF t.side = "long" THEN t.currentPrice - t.entryPrice
                  ELSE t.entryPrice - t.currentPrice
        t1 == [t EXCEPT !.currentProfit = profit]
    IN IF profit > t.highestProfit
       THEN [t1 EXCEPT !.highestProfit = profit, !.highestPrice = t.currentPrice]
       ELSE t1

\* currentProfitPercent > 0, and currentProfitPercent >= pm / 10
ProfitPositive(t) == t.currentProfit > 0
ProfitAtLeastPerMille(t, pm) == t.currentProfit >= (pm * t.entryPrice + 999) \div 1000

\* activateTrailing: the stop it computes is thrown away
activateTrailing(t) == [t EXCEPT !.status = "active"]

\* a trigger check that lets every trailing through
ActivateAlways(t) == TRUE

shouldActivate(t) ==
    IF t.side = "long" THEN t.currentPrice >= t.triggerPrice
    ELSE t.currentPrice <= t.triggerPrice

checkTriggerActivation(t) == IF shouldActivate(t) THEN activateTrailing(t) ELSE t

\* setBreakeven: the position's stop is left as it is
setBreakeven(t) ==
    [t EXCEPT !.isBreakevenSet = TRUE,
              !.breakevenPrice = t.entryPrice + (t.entryPrice * 1) \div 1000]

shouldSetBreakeven(t) ==
    LET config == TrailingConfig(t.strategy) IN
    IF config.breakevenMode = "immediate" THEN ProfitPositive(t)
    ELSE IF config.breakevenMode = "threshold"
    THEN ProfitAtLeastPerMille(t, config.minProfitPerMille)
    ELSE ProfitAtLeastPerMille(t, config.minProfitPerMille * 2)

checkBreakevenActivation(t) == IF shouldSetBreakeven(t) THEN setBreakeven(t) ELSE t

calculatePercentageTrailing(t) ==
    LET trailingDistance == (t.highestProfit * TrailingConfig(t.strategy).trailingPercent) \div 100 IN
    IF t.side = "long" THEN t.highestPrice - trailingDistance
    ELSE t.highestPrice + trailingDistance

\* 0 stands for the null of a missing ATR
calculateATRTrailing(t) ==
    IF t.atrValue = 0 THEN 0
    ELSE LET atrDistance == t.atrValue * TrailingConfig(t.strategy).atrMultiplier IN
         IF t.side = "long" THEN t.currentPrice - atrDistance
         ELSE t.currentPrice + atrDistance

calculateNewStopLoss(t) ==
    IF TrailingConfig(t.strategy).type = "percentage" THEN calculatePercentageTrailing(t)
    ELSE calculateATRTrailing(t)

\* a stop-loss test that lets every candidate through
AnyStopLoss(side, newStopLoss, oldStopLoss) == newStopLoss # 0

shouldUpdateStopLoss(side, newStopLoss, oldStopLoss) ==
    IF newStopLoss = 0 THEN FALSE
    ELSE IF side = "long" THEN newStopLoss > oldStopLoss
    ELSE newStopLoss < oldStopLoss

----------------------------------------------------------------------------
(* The mutable state of MockTrader as one value, so that a handler that   *)
(* calls several state-changing functions composes them in program order. *)

World == [acct |-> account, pos |-> positions, active |-> activePositions,
          hist |-> tradeHistory, closed |-> closedEvents, opened |-> openedEvents,
          trails |-> activeTrails, stopped |-> trailingHistory]

SetWorld(w) ==
    /\ account' = w.acct
    /\ positions' = w.pos
    /\ activePositions' = w.active
    /\ tradeHistory' = w.hist
    /\ closedEvents' = w.closed
    /\ openedEvents' = w.opened
    /\ activeTrails' = w.trails
    /\ trailingHistory' = w.stopped

getCurrentUnrealizedPnL(w) ==
    SumOver([i \in w.active |-> w.pos[i].unrealizedPnL], w.active)

SumMarginUsed(w) ==
    SumOver([i \in w.active |-> w.pos[i].marginUsed], w.active)

Without(f, id) == [i \in DOMAIN f \ {id} |-> f[i]]

\* a close that leaves the trailing of the position where it is
keepTrailing(w, id) == w

\* stopTrailing, reached from handlePositionClosed and from updateTrailing
stopTrailing(w, id) ==
    IF id \in DOMAIN w.trails
    THEN [w EXCEPT !.trails = Without(@, id), !.stopped = Append(@, id)]
    ELSE w

Capped(h) ==
    IF Len(h) > HistoryLimit THEN SubSeq(h, Len(h) - HistoryLimit + 1, Len(h)) ELSE h

\* balance += netPnL - exitFee, with netPnL = pnl - exitFee (mockTrader.js:278,292)
BalanceAfterClose(balance, pnl, exitFee) == balance + ((pnl - exitFee) - exitFee)

\* closePosition from "Slippage uygula" on: the part after the exit price is known.
\* The open-status check of lines 252-259 is made by the callers below, before
\* the await, as in the code.
ApplyClose(w, id, reason, exitPrice) ==
    LET position == w.pos[id]
        executionPrice == applySlippage(exitPrice, Opposite(position.side))
        pnl == calculatePositionPnL(position, executionPrice)
        exitFee == calculateFee(position.size * executionPrice)
        netPnL == pnl - exitFee
        closedPos == [position EXCEPT !.status = "closed",
                                      !.currentPrice = executionPrice,
                                      !.exitPrice = executionPrice,
                                      !.closeReason = reason,
                                      !.realizedPnL = netPnL,
                                      !.totalFees = @ + exitFee]
        pos1 == [w.pos EXCEPT ![id] = closedPos]
        balance1 == BalanceAfterClose(w.acct.balance, pnl, exitFee)
        \* getCurrentUnrealizedPnL runs before activePositions.delete
        equity1 == balance1 + SumOver([i \in w.active |-> pos1[i].unrealizedPnL], w.active)
        maxBalance1 == IF balance1 > w.acct.maxBalance THEN balance1 ELSE w.acct.maxBalance
        drawdown == Percent(maxBalance1 - balance1, maxBalance1)
        acct1 == [w.acct EXCEPT
                    !.margin = @ - position.marginUsed,
                    !.freeMargin = @ + position.marginUsed,
                    !.balance = balance1,
                    !.equity = equity1,
                    !.totalPnL = @ + netPnL,
                    !.winningTrades = IF netPnL > 0 THEN @ + 1 ELSE @,
                    !.losingTrades = IF netPnL > 0 THEN @ ELSE @ + 1,
                    !.maxBalance = maxBalance1,
                    !.maxDrawdown = IF drawdown > @ THEN drawdown ELSE @]
    \* position_closed is dispatched at the end: TrailingStop.handlePositionClosed
    IN stopTrailing(
           [w EXCEPT !.acct = acct1,
                     !.pos = pos1,
                     !.active = @ \ {id},
                     !.hist = Capped(Append(@, [id |-> id, reason |-> reason,
                                                realizedPnL |-> netPnL,
                                                exitPrice |-> executionPrice])),
                     !.closed = [@ EXCEPT ![id] = @ + 1]],
           id)

\* openMarketOrder lines 159-175: the values fixed before the ATR await
OrderTerms(symbol, side, quantity, leverage, currentPrice) ==
    LET positionLeverage == IF leverage # 0 THEN leverage ELSE DefaultLeverage
        notionalValue == quantity * currentPrice
    IN [symbol |-> symbol, side |-> side, size |-> quantity,
        leverage |-> positionLeverage,
        notionalValue |-> notionalValue,
        marginRequired |-> notionalValue \div positionLeverage,
        executionPrice |-> applySlippage(currentPrice, side),
        feeAmount |-> calculateFee(notionalValue)]

\* openMarketOrder lines 179-242: position creation and account update
ApplyOpen(w, t, stopLoss) ==
    LET id == Len(w.pos) + 1
        position == [symbol |-> t.symbol, side |-> t.side, status |-> "open",
                     size |-> t.size, leverage |-> t.leverage,
                     entryPrice |-> t.executionPrice, currentPrice |-> t.executionPrice,
                     notionalValue |-> t.notionalValue,
                     marginUsed |-> t.marginRequired,
                     stopLoss |-> stopLoss, takeProfit |-> 0,
                     unrealizedPnL |-> 0, realizedPnL |-> 0,
                     fees |-> t.feeAmount, totalFees |-> t.feeAmount,
                     exitPrice |-> 0, closeReason |-> "none",
                     trailingStop |-> [enabled |-> FALSE, triggerPrice |-> 0,
                                       highestProfit |-> 0]]
    IN [w EXCEPT !.acct = [@ EXCEPT !.margin = @ + t.marginRequired,
                                    !.freeMargin = @ - t.marginRequired,
                                    !.balance = @ - t.feeAmount,
                                    !.totalTrades = @ + 1],
                 !.pos = Append(@, position),
                 !.active = @ \cup {id},
                 !.closed = Append(@, 0),
                 !.opened = @ + 1]

----------------------------------------------------------------------------
(* The revaluation pass and the price events                               *)

\* updateTrailingStop: the engine's basic trailing rule; returns the position
updateTrailingStop(position, currentPrice) ==
    IF ~position.trailingStop.enabled THEN position
    ELSE
    LET currentPnL == calculatePositionPnL(position, currentPrice)
        hp == IF currentPnL > position.trailingStop.highestProfit
              THEN currentPnL ELSE position.trailingStop.highestProfit
        profitFromEntry == Abs(currentPnL)
        trailingDistance == (profitFromEntry * TrailingStopPercentage) \div 100
        p1 == [position EXCEPT !.trailingStop.highestProfit = hp]
    IN IF position.side = "long"
       THEN LET proposedStopLoss == currentPrice - trailingDistance IN
            IF proposedStopLoss > position.stopLoss
            THEN [p1 EXCEPT !.stopLoss = proposedStopLoss] ELSE p1
       ELSE LET proposedStopLoss == currentPrice + trailingDistance IN
            IF proposedStopLoss < position.stopLoss
            THEN [p1 EXCEPT !.stopLoss = proposedStopLoss] ELSE p1

\* a check that never asks for a close
neverClose(position, currentPrice) == "none"

\* checkStopLossTakeProfit: the close reason, "none" when shouldClose is false
checkStopLossTakeProfit(position, currentPrice) ==
    IF position.side = "long"
    THEN IF position.stopLoss # 0 /\ currentPrice <= position.stopLoss THEN "stop_loss"
         ELSE IF position.takeProfit # 0 /\ currentPrice >= position.takeProfit
              THEN "take_profit" ELSE "none"
    ELSE IF position.stopLoss # 0 /\ currentPrice >= position.stopLoss THEN "stop_loss"
         ELSE IF position.takeProfit # 0 /\ currentPrice <= position.takeProfit
              THEN "take_profit" ELSE "none"

\* closePosition called with a price: no await is reached, the call is synchronous
closePositionSync(w, id, reason, price) ==
    IF id \notin w.active \/ w.pos[id].status # "open" THEN w
    ELSE ApplyClose(w, id, reason, price)

\* the body of the loop of updateActivePositions for one position
RevalueOne(w, id, prices) ==
    LET currentPrice == prices[w.pos[id].symbol] IN
    IF currentPrice = NoPrice THEN w
    ELSE
    LET p1 == [w.pos[id] EXCEPT !.currentPrice = currentPrice,
                                !.unrealizedPnL = calculatePositionPnL(w.pos[id], currentPrice)]
        p2 == updateTrailingStop(p1, currentPrice)
        w1 == [w EXCEPT !.pos[id] = p2]
        reason == checkStopLossTakeProfit(p2, currentPrice)
    IN IF reason # "none" THEN closePositionSync(w1, id, reason, currentPrice) ELSE w1

Min(S) == CHOOSE x \in S : \A y \in S : x <= y

\* the Map is iterated in insertion order, which is the order of the ids
RECURSIVE RevalueAll(_, _, _)
RevalueAll(w, ids, prices) ==
    IF ids = {} THEN w
    ELSE LET id == Min(ids) IN RevalueAll(RevalueOne(w, id, prices), ids \ {id}, prices)

\* integer part of the float marginLevel = equity / margin * 100
MarginLevel(equity, margin) ==
    IF margin > 0 THEN Percent(equity, margin) ELSE 0

updateActivePositions(w, prices) ==
    LET w1 == RevalueAll(w, w.active, prices)
        equity1 == w1.acct.balance + getCurrentUnrealizedPnL(w1)
    IN [w1 EXCEPT !.acct = [@ EXCEPT !.equity = equity1,
                                     !.marginLevel = MarginLevel(equity1, w1.acct.margin)]]

\* The body of the loop runs in ErrorHandler.safeExecute, called without
\* onError: an error of the body is logged by handleCustomError and thrown
\* again, which leaves the loop.  throwing holds the positions for which the
\* body throws, at its first statement.
RECURSIVE RevalueUntilThrow(_, _, _, _)
RevalueUntilThrow(w, ids, prices, throwing) ==
    IF ids = {} THEN [w |-> w, thrown |-> FALSE]
    ELSE LET id == Min(ids) IN
         IF id \in throwing THEN [w |-> w, thrown |-> TRUE]
         ELSE RevalueUntilThrow(RevalueOne(w, id, prices), ids \ {id}, prices, throwing)

\* updateActivePositions when the body throws for the positions of throwing:
\* the error leaves the function before the update of equity and margin level
updateActivePositionsThrowing(w, prices, throwing) ==
    LET r == RevalueUntilThrow(w, w.active, prices, throwing)
    IN IF r.thrown THEN r.w ELSE updateActivePositions(w, prices)

updatePositionPrices(w, symbol, price) ==
    [w EXCEPT !.pos = [i \in DOMAIN w.pos |->
        IF i \in w.active /\ w.pos[i].symbol = symbol
        THEN [w.pos[i] EXCEPT !.currentPrice = price,
                              !.unrealizedPnL = calculatePositionPnL(w.pos[i], price)]
        ELSE w.pos[i]]]

\* enableTrailingStop
enableTrailing(position) ==
    LET initialRisk == Abs(position.entryPrice - position.stopLoss)
        triggerProfit == initialRisk * 2
    IN [position EXCEPT !.trailingStop.enabled = TRUE,
                        !.trailingStop.triggerPrice =
                            position.entryPrice +
                            (IF position.side = "long" THEN triggerProfit ELSE -triggerProfit)]

----------------------------------------------------------------------------
(* The Trailing-Stop Engine acting on the positions                        *)

\* a writer of the stop that marks the position to the highest price as well
updateWithMarkPrice(w, id, t) ==
    [w EXCEPT !.pos[id].stopLoss = calculateNewStopLoss(t),
              !.pos[id].currentPrice = t.highestPrice,
              !.trails[id] = t]

\* updateActiveTrailing with updatePositionStopLoss: the only place where the
\* engine writes position.stopLoss
updateActiveTrailing(w, id, t) ==
    LET oldStopLoss == t.currentStopLoss
        newStopLoss == calculateNewStopLoss(t)
    IN IF shouldUpdateStopLoss(t.side, newStopLoss, oldStopLoss)
       THEN [w EXCEPT !.pos[id].stopLoss = newStopLoss,
                      !.trails[id] = [t EXCEPT !.currentStopLoss = newStopLoss]]
       ELSE [w EXCEPT !.trails[id] = t]

\* updateTrailing(trailing) for the trailing object of position id
updateTrailing(w, id) ==
    IF id \notin w.active \/ w.pos[id].status # "open"
    THEN stopTrailing(w, id)
    ELSE
    LET t1 == [w.trails[id] EXCEPT !.currentPrice = w.pos[id].currentPrice,
                                   !.currentStopLoss = w.pos[id].stopLoss]
        t2 == updateProfitMetrics(t1)
        t3 == IF t2.status = "waiting" THEN checkTriggerActivation(t2) ELSE t2
        t4 == IF ~t3.isBreakevenSet THEN checkBreakevenActivation(t3) ELSE t3
    IN IF t4.status = "active" THEN updateActiveTrailing(w, id, t4)
       ELSE [w EXCEPT !.trails[id] = t4]

RECURSIVE UpdateTrailings(_, _)
UpdateTrailings(w, ids) ==
    IF ids = {} THEN w
    ELSE LET id == Min(ids) IN
         UpdateTrailings(IF id \in DOMAIN w.trails THEN updateTrailing(w, id) ELSE w,
                         ids \ {id})

\* the trailing of ids that the Map activeTrails yields first
FirstStarted(w, ids) ==
    CHOOSE id \in ids : \A o \in ids : w.trails[id].seq <= w.trails[o].seq

\* updateAllTrailings when updateTrailing throws, at its first statement, for
\* the trailings of throwing: safeExecute is called without onError here too,
\* so that the error leaves the loop
RECURSIVE UpdateTrailingsUntilThrow(_, _, _)
UpdateTrailingsUntilThrow(w, ids, throwing) ==
    IF ids = {} THEN w
    ELSE LET id == FirstStarted(w, ids) IN
         IF id \in throwing THEN w
         ELSE UpdateTrailingsUntilThrow(updateTrailing(w, id), ids \ {id}, throwing)

\* handlePriceUpdate: due holds the trailings whose last update is more than
\* 2 s old
handlePriceUpdate(w, symbol, due) ==
    UpdateTrailings(w, {id \in due \cap DOMAIN w.trails : w.trails[id].symbol = symbol})

\* what the listeners of ticker_updated / kline_updated do, in the order in
\* which they were registered
PriceEvent(w, symbol, price, due) ==
    handlePriceUpdate(updatePositionPrices(w, symbol, price), symbol, due)

----------------------------------------------------------------------------
(* Actions of MockTrader                                                   *)

NoTerms == OrderTerms("none", "none", 0, 1, 0)

\* the frame of executeEmergencyActions: what activated it, the positions it
\* took from getActivePositions and the index of the one being closed
NoBatch == [trigger |-> "none", snapshot |-> <<>>, idx |-> 0]

Task(pc, id, reason, symbol, side, qty, lev, terms) ==
    [pc |-> pc, id |-> id, reason |-> reason, symbol |-> symbol, side |-> side,
     qty |-> qty, lev |-> lev, terms |-> terms, batch |-> NoBatch]

RemoveAt(q, i) == SubSeq(q, 1, i - 1) \o SubSeq(q, i + 1, Len(q))

OpensInFlight == Cardinality({i \in DOMAIN tasks : tasks[i].pc \in {"open_price", "open_atr"}})

\* the margin check of openMarketOrder (line 166)
MarginCheckFails(marginRequired, freeMargin) == marginRequired > freeMargin

\* openMarketOrder from the price on, up to the await of calculateATRStopLoss;
\* rest is the task list without the calling task
OpenAfterPrice(rest, symbol, side, qty, lev, currentPrice) ==
    LET t == OrderTerms(symbol, side, qty, lev, currentPrice) IN
    IF MarginCheckFails(t.marginRequired, account.freeMargin)
    THEN tasks' = rest
    ELSE tasks' = Append(rest, Task("open_atr", 0, "none", symbol, side, qty, lev, t))

\* openMarketOrder(symbol, side, quantity, leverage); limit bounds the number
\* of positions a run creates
OpenMarketOrder(symbol, side, qty, lev, limit) ==
    /\ Len(positions) + OpensInFlight < limit
    /\ Len(tasks) < MaxTasks
    /\ IF cache[symbol] # NoPrice
       THEN OpenAfterPrice(tasks, symbol, side, qty, lev, cache[symbol])
       ELSE tasks' = Append(tasks, Task("open_price", 0, "none", symbol, side, qty, lev, NoTerms))
    /\ UNCHANGED <<worldVars, cache, resets, riskVars, validatorVars, signalVars>>

\* BinanceAPI.getCurrentPrice answers an open: a price, or NoPrice on failure
OpenPriceArrives(i, result) ==
    /\ i \in DOMAIN tasks /\ tasks[i].pc = "open_price"
    /\ IF result = NoPrice
       THEN tasks' = RemoveAt(tasks, i)
       ELSE OpenAfterPrice(RemoveAt(tasks, i), tasks[i].symbol, tasks[i].side,
                           tasks[i].qty, tasks[i].lev, result)
    /\ UNCHANGED <<worldVars, cache, resets, riskVars, validatorVars, signalVars>>

\* calculateATRStopLoss answers: atr = 0 is the fallback path
OpenCommit(i, atr) ==
    /\ i \in DOMAIN tasks /\ tasks[i].pc = "open_atr"
    /\ LET t == tasks[i].terms
           stopLoss == calculateATRStopLoss(t.executionPrice, t.side, atr)
       IN SetWorld(ApplyOpen(World, t, stopLoss))
    /\ tasks' = RemoveAt(tasks, i)
    /\ UNCHANGED <<cache, resets, riskVars, validatorVars, signalVars>>

\* closePosition(positionId, reason) without a price
ClosePosition(id, reason) ==
    /\ id \in DOMAIN positions
    /\ IF id \notin activePositions
       THEN UNCHANGED <<worldVars, tasks>>
       ELSE IF positions[id].status # "open"
       THEN UNCHANGED <<worldVars, tasks>>
       ELSE IF cache[positions[id].symbol] # NoPrice
       THEN /\ SetWorld(ApplyClose(World, id, reason, cache[positions[id].symbol]))
            /\ UNCHANGED tasks
       ELSE /\ Len(tasks) < MaxTasks
            /\ tasks' = Append(tasks, Task("close_price", id, reason,
                                           positions[id].symbol, "none", 0, 0, NoTerms))
            /\ UNCHANGED worldVars
    /\ UNCHANGED <<cache, resets, riskVars, validatorVars, signalVars>>

\* BinanceAPI.getCurrentPrice answers a close; the code does not look at the
\* position's status again after the await
ClosePriceArrives(i, result) ==
    /\ i \in DOMAIN tasks /\ tasks[i].pc = "close_price"
    /\ tasks' = RemoveAt(tasks, i)
    /\ IF result = NoPrice
       THEN UNCHANGED worldVars
       ELSE SetWorld(ApplyClose(World, tasks[i].id, tasks[i].reason, result))
    /\ UNCHANGED <<cache, resets, riskVars, validatorVars, signalVars>>

\* the account part of resetAccount (lines 636-651)
ResetBody(w) ==
    [w EXCEPT !.acct = [@ EXCEPT !.balance = InitialBalance,
                                 !.equity = InitialBalance,
                                 !.margin = 0,
                                 !.freeMargin = InitialBalance,
                                 !.marginLevel = 0,
                                 !.totalTrades = 0,
                                 !.winningTrades = 0,
                                 !.losingTrades = 0,
                                 !.totalPnL = 0,
                                 !.maxDrawdown = 0,
                                 !.maxBalance = InitialBalance],
                 !.hist = <<>>]

\* the closes that resetAccount started on a cached price resume, in the order
\* they were issued, once resetAccount has returned
RECURSIVE ResumeCloses(_, _, _)
ResumeCloses(w, ids, prices) ==
    IF ids = {} THEN w
    ELSE LET id == Min(ids) IN
         ResumeCloses(ApplyClose(w, id, "account_reset", prices[w.pos[id].symbol]),
                      ids \ {id}, prices)

RECURSIVE CloseTasksFor(_)
CloseTasksFor(ids) ==
    IF ids = {} THEN <<>>
    ELSE LET id == Min(ids) IN
         <<Task("close_price", id, "account_reset", positions[id].symbol, "none", 0, 0, NoTerms)>>
         \o CloseTasksFor(ids \ {id})

\* resetAccount: closePosition(id, 'account_reset') for every position, not
\* awaited; then the account is overwritten
ResetAccount ==
    /\ resets < MaxResets
    /\ LET warm == {id \in activePositions : cache[positions[id].symbol] # NoPrice}
           cold == activePositions \ warm
       IN /\ Len(tasks) + Cardinality(cold) <= MaxTasks
          /\ tasks' = tasks \o CloseTasksFor(cold)
          /\ SetWorld(ResumeCloses(ResetBody(World), warm, cache))
    /\ resets' = resets + 1
    /\ UNCHANGED <<cache, riskVars, validatorVars, signalVars>>

\* the 1 s timer: updateActivePositions
Revalue ==
    /\ SetWorld(updateActivePositions(World, cache))
    /\ UNCHANGED <<cache, tasks, resets, riskVars, validatorVars, signalVars>>

\* the 1 s timer when the body of the loop throws for the positions of throwing
RevalueThrows(throwing) ==
    /\ throwing \cap activePositions # {}
    /\ SetWorld(updateActivePositionsThrowing(World, cache, throwing))
    /\ UNCHANGED <<cache, tasks, resets, riskVars, validatorVars, signalVars>>

\* processTickerUpdate: the ticker is cached, then ticker_updated is dispatched
TickerUpdate(symbol, price, due) ==
    /\ cache' = [cache EXCEPT ![symbol] = price]
    /\ SetWorld(PriceEvent(World, symbol, price, due))
    /\ UNCHANGED <<tasks, resets, riskVars, validatorVars, signalVars>>

\* processKlineUpdate: kline_updated is dispatched, the ticker cache is not touched
KlineUpdate(symbol, price, due) ==
    /\ \E i \in activePositions : positions[i].symbol = symbol /\ positions[i].currentPrice # price
    /\ SetWorld(PriceEvent(World, symbol, price, due))
    /\ UNCHANGED <<cache, tasks, resets, riskVars, validatorVars, signalVars>>

\* the 5 s time-to-live of the cached ticker runs out
CacheExpire(symbol) ==
    /\ cache[symbol] # NoPrice
    /\ cache' = [cache EXCEPT ![symbol] = NoPrice]
    /\ UNCHANGED <<worldVars, tasks, resets, riskVars, validatorVars, signalVars>>

EnableTrailingStop(id) ==
    /\ id \in activePositions
    /\ ~positions[id].trailingStop.enabled
    /\ SetWorld([World EXCEPT !.pos[id] = enableTrailing(@)])
    /\ UNCHANGED <<cache, tasks, resets, riskVars, validatorVars, signalVars>>

----------------------------------------------------------------------------
(* Actions of the Trailing-Stop Engine                                     *)

\* the place that activeTrails.set gives to a new key: after all the others
NextSeq(trails) ==
    IF DOMAIN trails = {} THEN 1
    ELSE 1 + (CHOOSE n \in {trails[i].seq : i \in DOMAIN trails} :
                  \A i \in DOMAIN trails : trails[i].seq <= n)

\* startTrailing(positionId, strategy); the ATR of the atr strategy is fetched
\* in the background (updateATRData).  A position that has a trailing already
\* gets a new one in its place: activeTrails.set keeps the place of the key
StartTrailing(id, strategy) ==
    /\ id \in activePositions
    /\ activeTrails' = [i \in DOMAIN activeTrails \cup {id} |->
                           IF i = id
                           THEN NewTrailing(positions[id], strategy,
                                            IF id \in DOMAIN activeTrails
                                            THEN activeTrails[id].seq
                                            ELSE NextSeq(activeTrails))
                           ELSE activeTrails[i]]
    /\ UNCHANGED <<account, positions, activePositions, tradeHistory, closedEvents,
                   openedEvents, trailingHistory, cache, tasks, resets, riskVars,
                   validatorVars, signalVars>>

\* updateATRData resumes with the ATR of the 15m candles: the fetch issued by
\* startTrailing, or a refresh issued by updateTrailing
ATRArrives(id, atr) ==
    /\ id \in DOMAIN activeTrails
    /\ TrailingConfig(activeTrails[id].strategy).type = "atr"
    /\ activeTrails[id].atrValue # atr
    /\ activeTrails' = [activeTrails EXCEPT ![id].atrValue = atr]
    /\ UNCHANGED <<account, positions, activePositions, tradeHistory, closedEvents,
                   openedEvents, trailingHistory, cache, tasks, resets, riskVars,
                   validatorVars, signalVars>>

\* the 5 s timer: updateAllTrailings
UpdateAllTrailings ==
    /\ DOMAIN activeTrails # {}
    /\ SetWorld(UpdateTrailings(World, DOMAIN activeTrails))
    /\ UNCHANGED <<cache, tasks, resets, riskVars, validatorVars, signalVars>>

\* the 5 s timer when updateTrailing throws for the trailings of throwing
UpdateAllTrailingsThrows(throwing) ==
    /\ throwing \cap DOMAIN activeTrails # {}
    /\ SetWorld(UpdateTrailingsUntilThrow(World, DOMAIN activeTrails, throwing))
    /\ UNCHANGED <<cache, tasks, resets, riskVars, validatorVars, signalVars>>

ForceBreakeven(id) ==
    /\ id \in DOMAIN activeTrails
    /\ ~activeTrails[id].isBreakevenSet
    /\ activeTrails' = [activeTrails EXCEPT ![id] = setBreakeven(@)]
    /\ UNCHANGED <<account, positions, activePositions, tradeHistory, closedEvents,
                   openedEvents, trailingHistory, cache, tasks, resets, riskVars,
                   validatorVars, signalVars>>

ForceActivation(id) ==
    /\ id \in DOMAIN activeTrails
    /\ activeTrails[id].status = "waiting"
    /\ activeTrails' = [activeTrails EXCEPT ![id] = activateTrailing(@)]
    /\ UNCHANGED <<account, positions, activePositions, tradeHistory, closedEvents,
                   openedEvents, trailingHistory, cache, tasks, resets, riskVars,
                   validatorVars, signalVars>>

----------------------------------------------------------------------------
(* The Risk Manager (RiskManager).  riskEvents, a log that no decision of  *)
(* the code reads, is not part of the state.                               *)

\* setupRiskLimits: the thresholds computed once from the initial profile
ThresholdDailyLoss(level) ==
    IF level = "medium" THEN (MaxDailyLoss * 6) \div 10
    ELSE IF level = "high" THEN (MaxDailyLoss * 8) \div 10
    ELSE MaxDailyLoss

ThresholdDrawdown(level) ==
    IF level = "medium" THEN (MaxDrawdown * 6) \div 10
    ELSE IF level = "high" THEN (MaxDrawdown * 8) \div 10
    ELSE MaxDrawdown

\* Math.ceil(maxPositions * 0.8), maxPositions
ThresholdPositions(level) ==
    IF level = "medium" THEN (ProfileMaxPositions * 8 + 9) \div 10
    ELSE ProfileMaxPositions

\* the state of the Risk Manager as one value
Risk == [profile |-> riskProfile, emergency |-> emergencyMode, daily |-> dailyStats,
         run |-> emergencyActions, activations |-> emergencyActivations]

SetRisk(r) ==
    /\ riskProfile' = r.profile
    /\ emergencyMode' = r.emergency
    /\ dailyStats' = r.daily
    /\ emergencyActions' = r.run
    /\ emergencyActivations' = r.activations

\* a handler's view of the program: the trader, the Risk Manager, the
\* emergency batches it started (begun) and the calls it left suspended on
\* the network (susp)
State == [w |-> World, r |-> Risk, begun |-> <<>>, susp |-> <<>>]

getCurrentRiskMetrics(st) ==
    [dailyLossPercent |-> st.r.daily.dailyLossPercent,
     drawdownPercent |-> st.w.acct.maxDrawdown,
     activePositions |-> Cardinality(st.w.active),
     marginLevel |-> st.w.acct.marginLevel]

calculateCurrentRiskLevel(metrics, emergency) ==
    IF \/ metrics.dailyLossPercent >= ThresholdDailyLoss("critical")
       \/ metrics.drawdownPercent >= ThresholdDrawdown("critical")
       \/ emergency
    THEN "critical"
    ELSE IF \/ metrics.dailyLossPercent >= ThresholdDailyLoss("high")
            \/ metrics.drawdownPercent >= ThresholdDrawdown("high")
            \/ metrics.activePositions >= ThresholdPositions("high")
    THEN "high"
    ELSE IF \/ metrics.dailyLossPercent >= ThresholdDailyLoss("medium")
            \/ metrics.drawdownPercent >= ThresholdDrawdown("medium")
            \/ metrics.activePositions >= ThresholdPositions("medium")
    THEN "medium"
    ELSE "low"

updateRiskMetrics(st) ==
    LET balance == st.w.acct.balance
        start == st.r.daily.startingBalance
        dailyPnL == balance - start
    IN [st EXCEPT !.r.daily = [@ EXCEPT
            !.dailyPnL = dailyPnL,
            !.dailyLossPercent = Percent(Abs(dailyPnL), start)]]

\* a check that leaves the stored level as it is
keepRiskLevel(st) == st

checkRiskLevels(st) ==
    [st EXCEPT !.r.profile.level =
        calculateCurrentRiskLevel(getCurrentRiskMetrics(st), st.r.emergency)]

RECURSIVE SortedSeq(_)
SortedSeq(S) == IF S = {} THEN <<>> ELSE LET m == Min(S) IN <<m>> \o SortedSeq(S \ {m})

\* activateEmergencyMode: executeEmergencyActions is started, not awaited
activateEmergencyMode(st, trigger) ==
    [st EXCEPT !.r.emergency = TRUE,
               !.r.profile.level = "critical",
               !.r.activations = @ + 1,
               !.begun = Append(@, [trigger |-> trigger,
                                    snapshot |-> SortedSeq(st.w.active),
                                    idx |-> 1])]

handleEmergencyTrigger(st, trigger) ==
    IF ~st.r.emergency THEN activateEmergencyMode(st, trigger) ELSE st

RECURSIVE HandleTriggers(_, _)
HandleTriggers(st, triggers) ==
    IF triggers = <<>> THEN st
    ELSE HandleTriggers(handleEmergencyTrigger(st, Head(triggers)), Tail(triggers))

\* the triggers pushed by checkEmergencyTriggers, in its order
EmergencyTriggers(st) ==
    LET m == getCurrentRiskMetrics(st)
        start == st.r.daily.startingBalance
        loss == start - st.w.acct.balance
    IN (IF m.dailyLossPercent >= MaxDailyLoss THEN <<"daily_loss_limit">> ELSE <<>>)
       \o (IF m.drawdownPercent >= MaxDrawdown THEN <<"drawdown_limit">> ELSE <<>>)
       \o (IF m.marginLevel > 0 /\ m.marginLevel < MarginCallLevel
           THEN <<"margin_call">> ELSE <<>>)
       \o (IF loss > 0 /\ Percent(loss, start) >= PanicModeThreshold
           THEN <<"panic_mode">> ELSE <<>>)

checkEmergencyTriggers(st) == HandleTriggers(st, EmergencyTriggers(st))

\* the types of the events that recordRiskEvent is called with
RecordedEventTypes == {"risk_level_change", "panic_mode", "emergency_trigger",
                       "risk_reduction", "risk_stop", "portfolio_risk", "signal_change"}

\* shouldWarn: no event of type warning in riskEvents in the last 5 minutes
shouldWarn == "warning" \notin RecordedEventTypes

\* the WARN case of executeRiskActions: the warning of the medium level is logged
warnsAtMedium(st) == st.r.profile.level = "medium" /\ shouldWarn

\* calculateTighterStopLoss
calculateTighterStopLoss(position) ==
    LET tighterDistance == Abs(position.currentPrice - position.stopLoss) \div 2 IN
    IF position.side = "long" THEN position.currentPrice - tighterDistance
    ELSE position.currentPrice + tighterDistance

\* executeRiskReduction: the open positions in loss, the two with the lowest
\* unrealizedPnL (the sort is stable: ties keep the order of the ids).  The
\* stop computed for them goes into a risk event only
riskyPositions(w) ==
    {id \in w.active :
        /\ w.pos[id].unrealizedPnL < 0
        /\ Cardinality({o \in w.active :
               \/ w.pos[o].unrealizedPnL < w.pos[id].unrealizedPnL
               \/ w.pos[o].unrealizedPnL = w.pos[id].unrealizedPnL /\ o < id}) < 2}

\* executeRiskActions: only the STOP action of the critical level writes state
executeRiskActions(st) ==
    IF st.r.profile.level = "critical"
    THEN [st EXCEPT !.r.profile.maxPositions = 0]
    ELSE st

\* executeEmergencyActions from the close of snapshot[idx] on.  A close on a
\* cached price goes on at once; one that needs the network suspends the
\* batch; one that throws ends it in the catch, before maxPositions is set.
RECURSIVE RunEmergency(_, _, _)
RunEmergency(st, b, prices) ==
    IF b.idx > Len(b.snapshot)
    THEN [st EXCEPT !.r.profile.maxPositions = 0,
                    !.r.run = [outcome |-> "completed", trigger |-> b.trigger,
                               snapshot |-> b.snapshot, attempted |-> Len(b.snapshot)]]
    ELSE
    LET id == b.snapshot[b.idx] IN
    IF id \notin st.w.active \/ st.w.pos[id].status # "open"
    THEN [st EXCEPT !.r.run = [outcome |-> "failed", trigger |-> b.trigger,
                               snapshot |-> b.snapshot, attempted |-> b.idx]]
    ELSE IF prices[st.w.pos[id].symbol] # NoPrice
    THEN RunEmergency([st EXCEPT !.w = ApplyClose(st.w, id, "emergency_close",
                                                  prices[st.w.pos[id].symbol])],
                      [b EXCEPT !.idx = @ + 1], prices)
    ELSE [st EXCEPT !.susp = Append(@,
              [Task("emergency_close", id, "emergency_close", st.w.pos[id].symbol,
                    "none", 0, 0, NoTerms) EXCEPT !.batch = b])]

\* the batches a handler started run on once the handler has returned
RECURSIVE RunBegun(_, _)
RunBegun(st, prices) ==
    IF st.begun = <<>> THEN st
    ELSE RunBegun(RunEmergency([st EXCEPT !.begun = Tail(@)], Head(st.begun), prices), prices)

SetState(st) ==
    /\ Len(tasks) + Len(st.susp) <= MaxTasks
    /\ SetWorld(st.w)
    /\ SetRisk(st.r)
    /\ tasks' = tasks \o st.susp

\* the 10 s timer of startRiskMonitoring
RiskCheckCycle ==
    /\ SetState(RunBegun(executeRiskActions(checkEmergencyTriggers(
                    checkRiskLevels(updateRiskMetrics(State)))), cache))
    /\ UNCHANGED <<cache, resets, days, validatorVars, signalVars>>

\* BinanceAPI.getCurrentPrice answers the close an emergency batch waits for
EmergencyPriceArrives(i, result) ==
    /\ i \in DOMAIN tasks /\ tasks[i].pc = "emergency_close"
    /\ LET b == tasks[i].batch
           st0 == [State EXCEPT !.susp = <<>>]
           st1 == IF result = NoPrice
                  THEN [st0 EXCEPT !.r.run = [outcome |-> "failed", trigger |-> b.trigger,
                                              snapshot |-> b.snapshot, attempted |-> b.idx]]
                  ELSE RunEmergency([st0 EXCEPT !.w = ApplyClose(st0.w, tasks[i].id,
                                                                 "emergency_close", result)],
                                    [b EXCEPT !.idx = @ + 1], cache)
       IN /\ SetWorld(st1.w)
          /\ SetRisk(st1.r)
          /\ tasks' = RemoveAt(tasks, i) \o st1.susp
    /\ UNCHANGED <<cache, resets, days, validatorVars, signalVars>>

\* the public activateEmergencyMode(reason)
ActivateEmergencyMode ==
    /\ emergencyActivations < MaxActivations
    /\ SetState(RunBegun(activateEmergencyMode(State, "manual"), cache))
    /\ UNCHANGED <<cache, resets, days, validatorVars, signalVars>>

\* the public deactivateEmergencyMode()
DeactivateEmergencyMode ==
    /\ emergencyMode
    /\ emergencyActivations < MaxActivations
    /\ emergencyMode' = FALSE
    /\ riskProfile' = [riskProfile EXCEPT !.level = "medium",
                                          !.maxPositions = ProfileMaxPositions]
    /\ UNCHANGED <<traderVars, trailVars, dailyStats, emergencyActions,
                   emergencyActivations, days, validatorVars, signalVars>>

\* the public updateRiskProfile(updates): the fields of updates replace those
\* of the profile
UpdateRiskProfile(updates) ==
    /\ riskProfile' = [f \in DOMAIN riskProfile |->
                          IF f \in DOMAIN updates THEN updates[f] ELSE riskProfile[f]]
    /\ riskProfile' # riskProfile
    /\ UNCHANGED <<traderVars, trailVars, emergencyMode, dailyStats, emergencyActions,
                   emergencyActivations, days, validatorVars, signalVars>>

initializeDailyStats(balance) ==
    [startingBalance |-> balance, dailyPnL |-> 0, dailyLossPercent |-> 0]

\* checkDailyReset on the first check of a new day
CheckDailyReset ==
    /\ days < MaxDays
    /\ days' = days + 1
    /\ dailyStats' = initializeDailyStats(account.balance)
    /\ IF emergencyMode
       THEN /\ emergencyMode' = FALSE
            /\ riskProfile' = [riskProfile EXCEPT !.level = "medium",
                                                  !.maxPositions = ProfileMaxPositions]
       ELSE UNCHANGED <<emergencyMode, riskProfile>>
    /\ UNCHANGED <<traderVars, trailVars, emergencyActions, emergencyActivations,
                   validatorVars, signalVars>>

----------------------------------------------------------------------------
(* The Timeframe Validator (TimeframeValidator).  A session is the         *)
(* validation object of startSequentialValidation; the async function that *)
(* runs it keeps the object even when the cache no longer holds it.        *)
(* pc is where that function stands: "checking" (validateTimeframe waits   *)
(* for the candles of `stage`), "waiting" (the pause between two polls of  *)
(* the monitoring loop), "returned" or "threw".                            *)

Timeframes == {"4h", "1h", "15m"}

\* results is timeframeResults: the isValid of the last result of a timeframe
NewSession ==
    [state |-> "validating", pc |-> "checking", stage |-> "4h",
     finalReason |-> "none", results |-> [tf \in Timeframes |-> "none"],
     completed |-> "none"]

InCache(id) == id \in validationCache

\* the catch of startSequentialValidation
Rejects(s) == [s EXCEPT !.state = "rejected", !.pc = "threw"]

\* finalizeValidation; it throws when the cache has lost the session
Finalize(id, s, isSuccessful) ==
    IF ~InCache(id) THEN Rejects(s)
    ELSE [s EXCEPT !.state = IF isSuccessful THEN "confirmed" ELSE "rejected",
                   !.finalReason = IF isSuccessful THEN "successful" ELSE "failed",
                   !.completed = IF isSuccessful THEN "confirmed" ELSE "rejected",
                   !.pc = "returned"]

\* monitorTimeframeWindow up to its first poll; it throws when the cache has
\* lost the session
StartWindow(id, s, timeframe) ==
    IF ~InCache(id) THEN Rejects(s)
    ELSE [s EXCEPT !.stage = timeframe, !.pc = "checking"]

\* a session that is finalized as successful on its first valid timeframe
ConfirmAtOnce(id, s) == Finalize(id, s, TRUE)

\* what follows a valid timeframe in executeSequentialValidation
AfterValid(id, s) ==
    IF s.stage = "4h" THEN StartWindow(id, s, "1h")
    ELSE IF s.stage = "1h" THEN StartWindow(id, s, "15m")
    ELSE Finalize(id, s, TRUE)

SetSession(id, s) ==
    /\ sessions' = [sessions EXCEPT ![id] = s]
    /\ validationHistory' =
           IF s.completed # sessions[id].completed
           THEN Append(validationHistory, [id |-> id, state |-> s.state])
           ELSE validationHistory

\* startSequentialValidation up to the first await of validateTimeframe
StartSequentialValidation ==
    /\ Len(sessions) < MaxSessions
    /\ sessions' = Append(sessions, NewSession)
    /\ validationCache' = validationCache \cup {Len(sessions) + 1}
    /\ UNCHANGED <<validationHistory, traderVars, trailVars, riskVars, signalVars>>

\* validateTimeframe resumes: the timeframe is valid, is not valid, or the
\* candles are missing and it throws
CheckArrives(id, outcome) ==
    /\ id \in DOMAIN sessions
    /\ sessions[id].pc = "checking"
    /\ LET s == sessions[id]
           s1 == IF outcome = "error" THEN s
                 ELSE [s EXCEPT !.results[s.stage] = outcome]
       IN SetSession(id,
            IF s.stage = "4h"
            THEN IF outcome = "error" THEN Rejects(s1)
                 ELSE IF outcome = "valid" THEN AfterValid(id, s1)
                 ELSE Finalize(id, s1, FALSE)
            ELSE IF outcome = "valid" THEN AfterValid(id, s1)
                 ELSE [s1 EXCEPT !.pc = "waiting"])
    /\ UNCHANGED <<validationCache, traderVars, trailVars, riskVars, signalVars>>

\* the pause of the monitoring loop ends: the cancellation check, then the
\* test of the window, then the next poll
WaitElapses(id, windowOpen) ==
    /\ id \in DOMAIN sessions
    /\ sessions[id].pc = "waiting"
    /\ LET s == sessions[id] IN
       SetSession(id,
            IF ~InCache(id) \/ s.state = "rejected" THEN Finalize(id, s, FALSE)
            ELSE IF ~windowOpen THEN Finalize(id, s, FALSE)
            ELSE [s EXCEPT !.pc = "checking"])
    /\ UNCHANGED <<validationCache, traderVars, trailVars, riskVars, signalVars>>

\* the public cancelValidation(validationId)
CancelValidation(id) ==
    /\ id \in validationCache
    /\ sessions' = [sessions EXCEPT ![id] = [@ EXCEPT !.state = "rejected",
                                                      !.finalReason = "cancelled"]]
    /\ UNCHANGED <<validationCache, validationHistory, traderVars, trailVars, riskVars,
                   signalVars>>

\* cleanupValidationCache: the sessions started more than an hour ago, which
\* are the first upTo of them, leave the cache
CleanupValidationCache(upTo) ==
    /\ \E id \in validationCache : id <= upTo
    /\ validationCache' = {id \in validationCache : id > upTo}
    /\ UNCHANGED <<sessions, validationHistory, traderVars, trailVars, riskVars, signalVars>>

----------------------------------------------------------------------------
(* The Signal Generator (SignalGenerator).  A score is kept in twentieths, *)
(* a confidence in 1/9000, so that every value of the code is an integer.  *)
(* What an indicator found on a timeframe is an input: "none" stands for a *)
(* timeframe that the indicator skipped (too few candles), for an analysis *)
(* that failed inside the indicator (its catch stores null) and for a      *)
(* result that does not qualify.                                           *)

\* lastAnalysis before the first analysis, a missing multiData argument, and
\* the value null that a call resolves to
NoAnalysis == [symbol |-> "none"]
NoData == [missing |-> TRUE]
Null == [isNull |-> TRUE]

\* analyzeTimeframe: in is what the indicators found on the timeframe
analyzeTimeframe(in) ==
    LET nadaraya == IF in.nadaraya = "none" THEN 0
                    ELSE IF in.nadaraya = "upper" THEN -60 ELSE 60
        rsi == IF in.rsi = "neutral" THEN 0
               ELSE (IF in.rsi = "oversold" THEN 1 ELSE -1) *
                    (IF in.divergence THEN 30 ELSE 20)
        ma == IF in.ma = "none" THEN 0
              ELSE (IF in.ma = "bullish" THEN 4 ELSE -4) * in.maConfidence
        score == nadaraya + rsi + ma
        absScore == Abs(score)
    IN [signals |-> {k \in {"nadaraya", "rsi", "movingAverages"} :
                        \/ k = "nadaraya" /\ in.nadaraya # "none"
                        \/ k = "rsi" /\ in.rsi # "neutral"
                        \/ k = "movingAverages" /\ in.ma # "none"},
        score |-> score,
        signal |-> IF score > 40 THEN "long" ELSE IF score < -40 THEN "short" ELSE "neutral",
        strength |-> IF absScore >= 120 THEN "very_strong"
                     ELSE IF absScore >= 80 THEN "strong"
                     ELSE IF absScore >= 40 THEN "moderate" ELSE "weak"]

TimeframeWeight(tf) == IF tf = "4h" THEN 3 ELSE IF tf = "1h" THEN 2 ELSE 1

\* calculateOverallSignal: avgScore = totalScore / totalWeight is compared
\* without dividing
calculateOverallSignal(timeframeAnalysis) ==
    LET active == {tf \in Timeframes : timeframeAnalysis[tf].signal # "neutral"}
        totalScore == SumOver([tf \in active |->
                                  timeframeAnalysis[tf].score * TimeframeWeight(tf)], active)
        totalWeight == SumOver([tf \in active |-> TimeframeWeight(tf)], active)
        absTotal == Abs(totalScore)
    IN IF active = {}
       THEN [signal |-> "neutral", strength |-> "weak", totalScore |-> 0, totalWeight |-> 0]
       ELSE [signal |-> IF totalScore > 20 * totalWeight THEN "long"
                        ELSE IF totalScore < -20 * totalWeight THEN "short"
                        ELSE "neutral",
             strength |-> IF absTotal >= 80 * totalWeight THEN "very_strong"
                          ELSE IF absTotal >= 60 * totalWeight THEN "strong"
                          ELSE IF absTotal >= 40 * totalWeight THEN "moderate"
                          ELSE "weak",
             totalScore |-> totalScore, totalWeight |-> totalWeight]

\* the strength tier of calculateConfidence, in tenths
StrengthScore(analysis) ==
    IF analysis.signal = "neutral" THEN 0
    ELSE IF analysis.strength = "very_strong" THEN 10
    ELSE IF analysis.strength = "strong" THEN 8
    ELSE IF analysis.strength = "moderate" THEN 6
    ELSE 4

\* calculateConfidence, in 1/9000: consensus * 0.4 is 3600 * max / n, the
\* diversity activeIndicators / 9 * 0.3 is 300 * activeIndicators, the average
\* strength * 0.3 is 90 * the sum of the tenths; the sum is divided by factors
calculateConfidence(timeframeAnalysis) ==
    LET signals == {tf \in Timeframes : timeframeAnalysis[tf].signal # "neutral"}
        longCount == Cardinality({tf \in signals : timeframeAnalysis[tf].signal = "long"})
        shortCount == Cardinality(signals) - longCount
        most == IF longCount > shortCount THEN longCount ELSE shortCount
        consensus == IF signals = {} THEN 0 ELSE (3600 * most) \div Cardinality(signals)
        factors == IF signals = {} THEN 2 ELSE 3
        activeIndicators == SumOver([tf \in Timeframes |->
                                        Cardinality(timeframeAnalysis[tf].signals)],
                                    Timeframes)
        strengthSum == SumOver([tf \in Timeframes |-> StrengthScore(timeframeAnalysis[tf])],
                               Timeframes)
        confidence == (consensus + 300 * activeIndicators + 90 * strengthSum) \div factors
    IN IF confidence < 0 THEN 0 ELSE IF confidence > 9000 THEN 9000 ELSE confidence

\* what the four analyzeMultiTimeframe calls leave for a timeframe whose
\* candles are missing or too few: no result of any indicator
Found(in) ==
    IF in.candles = "enough" THEN in
    ELSE [candles |-> in.candles, nadaraya |-> "none", rsi |-> "neutral",
          divergence |-> FALSE, ma |-> "none", maConfidence |-> 0]

\* the body of analyzeSymbol behind its guard: the analysis object
Analysis(symbol, multiData) ==
    LET timeframes == [tf \in Timeframes |-> analyzeTimeframe(Found(multiData[tf]))]
        overall == calculateOverallSignal(timeframes)
    IN [symbol |-> symbol, timeframes |-> timeframes, overall |-> overall,
        confidence |-> calculateConfidence(timeframes),
        recommendation |-> overall.signal]

\* analyzeSymbol(symbol, multiData): symbol "" is a missing symbol, multiData
\* NoData a missing multiData; the value the promise resolves to
analyzeSymbol(symbol, multiData) ==
    IF symbol = "" \/ multiData = NoData THEN Null ELSE Analysis(symbol, multiData)

\* a call of analyzeSymbol; the body has no await, so the call is one step
AnalyzeSymbol(symbol, multiData) ==
    /\ Len(signalReturns) < MaxAnalyses
    /\ signalReturns' = Append(signalReturns,
                                [symbol |-> symbol, multiData |-> multiData,
                                 value |-> analyzeSymbol(symbol, multiData)])
    /\ lastAnalysis' = IF analyzeSymbol(symbol, multiData) = Null THEN lastAnalysis
                       ELSE analyzeSymbol(symbol, multiData)
    /\ UNCHANGED <<signalChanged, traderVars, trailVars, riskVars, validatorVars>>

\* updateSignalLive(symbol, newCandle) from the moment getMultiTimeframeData
\* has answered with multiData.  analyzeSymbol has stored its analysis in
\* lastAnalysis before the recommendations are compared, and the event takes
\* its old signal from lastAnalysis as well
UpdateSignalLive(symbol, multiData) ==
    /\ Len(signalReturns) < MaxAnalyses + MaxLiveUpdates
    /\ lastAnalysis # NoAnalysis
    /\ lastAnalysis.symbol = symbol
    /\ LET updatedAnalysis == analyzeSymbol(symbol, multiData)
           last == IF updatedAnalysis = Null THEN lastAnalysis ELSE updatedAnalysis
       IN /\ signalReturns' = Append(signalReturns,
                                     [symbol |-> symbol, multiData |-> multiData,
                                      value |-> updatedAnalysis])
          /\ lastAnalysis' = last
          /\ signalChanged' =
                 IF updatedAnalysis # Null /\ updatedAnalysis.recommendation # last.recommendation
                 THEN Append(signalChanged, [oldSignal |-> last.recommendation,
                                             newSignal |-> updatedAnalysis.recommendation])
                 ELSE signalChanged
    /\ UNCHANGED <<traderVars, trailVars, riskVars, validatorVars>>

----------------------------------------------------------------------------
(* The state after construction and the specifications                     *)

initializeMockAccount ==
    [balance |-> InitialBalance, equity |-> InitialBalance, margin |-> 0,
     freeMargin |-> InitialBalance, marginLevel |-> 0,
     totalTrades |-> 0, winningTrades |-> 0, losingTrades |-> 0,
     totalPnL |-> 0, maxDrawdown |-> 0, maxBalance |-> InitialBalance]

initializeRiskProfile == [level |-> "medium", maxPositions |-> ProfileMaxPositions]

Init ==
    /\ account = initializeMockAccount
    /\ positions = <<>>
    /\ activePositions = {}
    /\ tradeHistory = <<>>
    /\ closedEvents = <<>>
    /\ openedEvents = 0
    /\ cache = [s \in Symbols |-> NoPrice]
    /\ tasks = <<>>
    /\ resets = 0
    /\ activeTrails = <<>>
    /\ trailingHistory = <<>>
    /\ riskProfile = initializeRiskProfile
    /\ emergencyMode = FALSE
    /\ dailyStats = initializeDailyStats(InitialBalance)
    /\ emergencyActions = [outcome |-> "none", trigger |-> "none",
                           snapshot |-> <<>>, attempted |-> 0]
    /\ emergencyActivations = 0
    /\ days = 0
    /\ sessions = <<>>
    /\ validationCache = {}
    /\ validationHistory = <<>>
    /\ lastAnalysis = NoAnalysis
    /\ signalReturns = <<>>
    /\ signalChanged = <<>>

AtrValues == {0}
Quantities == {1}
Leverages == {0}
NoTrails == {{}}

\* the Execution Engine alone, every interleaving of its calls
Next ==
    \/ \E s \in Symbols, d \in Sides, q \in Quantities, l \in Leverages :
           OpenMarketOrder(s, d, q, l, MaxPositions)
    \/ \E i \in 1..MaxTasks, p \in PriceGrid \cup {NoPrice} : OpenPriceArrives(i, p)
    \/ \E i \in 1..MaxTasks, a \in AtrValues : OpenCommit(i, a)
    \/ \E id \in 1..MaxPositions : ClosePosition(id, "manual_close")
    \/ \E i \in 1..MaxTasks, p \in PriceGrid \cup {NoPrice} : ClosePriceArrives(i, p)
    \/ ResetAccount
    \/ Revalue
    \/ \E s \in Symbols, p \in PriceGrid, due \in NoTrails : TickerUpdate(s, p, due)
    \/ \E s \in Symbols, p \in PriceGrid, due \in NoTrails : KlineUpdate(s, p, due)
    \/ \E s \in Symbols : CacheExpire(s)
    \/ \E id \in 1..MaxPositions : EnableTrailingStop(id)

Spec == Init /\ [][Next]_vars

----------------------------------------------------------------------------
(* Properties of the Execution Engine                                      *)

\* C40: for a position with the basic trailing rule enabled, the rule applied
\* at a mark price that has not reached the trigger price of enableTrailingStop
\* leaves the stop-loss as it is, and a stop-loss that the rule moves stays on
\* the far side of the mark price.
C40_BasicTrailingWaitsForTrigger ==
    \A id \in activePositions, q \in PriceGrid :
        positions[id].trailingStop.enabled =>
            LET position == positions[id]
                moved == updateTrailingStop(position, q)
                reached == IF position.side = "long"
                           THEN q >= position.trailingStop.triggerPrice
                           ELSE q <= position.trailingStop.triggerPrice
            IN /\ ~reached => moved.stopLoss = position.stopLoss
               /\ moved.stopLoss # position.stopLoss =>
                      IF position.side = "long" THEN moved.stopLoss < q
                      ELSE moved.stopLoss > q

\* C39: resetAccount called with positions open, followed by the end of every
\* close it issued, each at a price of the grid, leaves the account as it is
\* after construction, no position open and the trade history empty.
C39_ResetRestoresInitialAccount ==
    \A p \in PriceGrid :
        activePositions # {} =>
            LET w == ResumeCloses(ResetBody(World), activePositions, [s \in Symbols |-> p]) IN
            /\ w.acct = initializeMockAccount
            /\ w.active = {}
            /\ w.hist = <<>>

\* C1: in every reachable state account.margin is the sum of marginUsed over
\* the open positions (so 0 when none is open) and is never negative.
C1_MarginIsSumOfOpenMargins ==
    /\ account.margin = SumMarginUsed(World)
    /\ account.margin >= 0

\* the gross profit and the exit fee of the close that a step performs on id
GrossOfClose(id) == calculatePositionPnL(positions[id], positions'[id].exitPrice)
ExitFeeOfClose(id) == positions'[id].totalFees - positions[id].totalFees
IsCloseOf(id) ==
    /\ id \in DOMAIN closedEvents
    /\ closedEvents'[id] = closedEvents[id] + 1
    /\ resets' = resets

\* C2: a close changes the balance by the gross profit less the exit fee, the
\* exit fee being debited exactly once (the entry fee was debited at the open).
C2_CloseDebitsExitFeeOnce ==
    [][\A id \in DOMAIN positions :
          IsCloseOf(id) =>
              account'.balance = account.balance + GrossOfClose(id) - ExitFeeOfClose(id)]_vars

\* C15: a close records on the position realizedPnL = gross P&L - entry fee -
\* exit fee, the entry fee being the one charged when the position was opened.
C15_RealizedPnLNetOfBothFees ==
    [][\A id \in DOMAIN positions :
          IsCloseOf(id) =>
              positions'[id].realizedPnL =
                  GrossOfClose(id) - positions[id].fees - ExitFeeOfClose(id)]_vars

\* C7: whatever the interleaving of close requests, a position is closed at
\* most once: one position_closed event and one history entry per position.
C7_ClosedAtMostOnce ==
    \A id \in DOMAIN positions :
        /\ closedEvents[id] <= 1
        /\ Cardinality({k \in DOMAIN tradeHistory : tradeHistory[k].id = id}) <= 1

\* C14: in every reachable state the equity is the balance plus the sum of the
\* unrealized P&L of the open positions.
C14_EquityIsBalancePlusUnrealized ==
    account.equity = account.balance + getCurrentUnrealizedPnL(World)

----------------------------------------------------------------------------
(* Specification and properties of the Timeframe Validator                 *)

CheckOutcomes == {"valid", "invalid", "error"}

NextValidator ==
    \/ StartSequentialValidation
    \/ \E id \in 1..MaxSessions, outcome \in CheckOutcomes : CheckArrives(id, outcome)
    \/ \E id \in 1..MaxSessions, windowOpen \in BOOLEAN : WaitElapses(id, windowOpen)
    \/ \E id \in 1..MaxSessions : CancelValidation(id)
    \/ \E upTo \in 1..MaxSessions : CleanupValidationCache(upTo)

SpecValidator == Init /\ [][NextValidator]_vars

\* C4: once the state of a session is confirmed or rejected, no step changes
\* it: confirmed never becomes rejected, rejected never becomes confirmed or
\* validating.
C4_TerminalStateIsFinal ==
    [][\A id \in DOMAIN sessions :
          sessions[id].state \in {"confirmed", "rejected"} =>
              sessions'[id].state = sessions[id].state]_vars

\* C5: a session that was cancelled while it was validating is never
\* finalized as confirmed.
C5_CancelledNeverConfirmed ==
    [][\A id \in DOMAIN sessions :
          (sessions[id].finalReason = "cancelled" /\ sessions[id].pc \in {"checking", "waiting"}) =>
              sessions'[id].completed # "confirmed"]_vars

\* C11: the stages run in the order 4h, 1h, 15m: the 1h timeframe has a result
\* only when the 4h check was valid, the 15m timeframe only when a 1h poll was
\* valid; a session whose 4h check was not valid is rejected with no 1h or 15m
\* result; a session is confirmed only with a valid result of all three.
C11_StagesInOrder ==
    \A id \in DOMAIN sessions :
        LET s == sessions[id] IN
        /\ s.results["1h"] # "none" => s.results["4h"] = "valid"
        /\ s.results["15m"] # "none" => s.results["1h"] = "valid"
        /\ s.results["4h"] = "invalid" =>
               /\ s.state = "rejected"
               /\ s.results["1h"] = "none" /\ s.results["15m"] = "none"
        /\ s.completed = "confirmed" => \A tf \in Timeframes : s.results[tf] = "valid"

\* one session confirmed on three valid results, another rejected on its 4h
\* check
C11_ConfirmedAndRejected ==
    \E id, other \in DOMAIN sessions :
        /\ sessions[id].completed = "confirmed"
        /\ \A tf \in Timeframes : sessions[id].results[tf] = "valid"
        /\ sessions[other].results["4h"] = "invalid"
        /\ sessions[other].state = "rejected"

\* the validation_completed events of a session: finalizeValidation emits one
\* with each entry it pushes to validationHistory
CompletionEvents(id) == {k \in DOMAIN validationHistory : validationHistory[k].id = id}

\* C12: a session whose run has ended is confirmed or rejected, and exactly one
\* validation_completed event was emitted for it, carrying its final state.
C12_EndsWithOneCompletionEvent ==
    \A id \in DOMAIN sessions :
        sessions[id].pc \in {"returned", "threw"} =>
            /\ sessions[id].state \in {"confirmed", "rejected"}
            /\ Cardinality(CompletionEvents(id)) = 1
            /\ \A k \in CompletionEvents(id) :
                   validationHistory[k].state = sessions[id].state

\* C35: a session whose monitoring window is running and that has not been
\* cancelled is in the cache, and when a pause of its loop ends before the
\* deadline of the window it goes on to the next poll.
C35_WindowRunsToItsDeadline ==
    [][/\ \A id \in DOMAIN sessions' :
             (/\ sessions'[id].pc \in {"checking", "waiting"}
              /\ sessions'[id].stage \in {"1h", "15m"}
              /\ sessions'[id].state = "validating") => id \in validationCache'
       /\ \A id \in DOMAIN sessions :
             (/\ sessions[id].pc = "waiting"
              /\ sessions[id].state = "validating"
              /\ WaitElapses(id, TRUE)) => sessions'[id].pc = "checking"]_vars

\* C22: a session whose 4h check found no candles or whose fetch failed ends
\* with a returned result: it is rejected, in the history, its completion event
\* emitted, and no exception reaches the caller of startSequentialValidation.
C22_MissingDataIsRejectedResult ==
    \A id \in DOMAIN sessions :
        LET s == sessions[id] IN
        (s.stage = "4h" /\ s.results["4h"] = "none" /\ s.pc # "checking") =>
            /\ s.pc = "returned"
            /\ s.state = "rejected"
            /\ CompletionEvents(id) # {}

----------------------------------------------------------------------------
(* Specification and properties of the stop-loss writers                   *)

Strategies == {"conservative", "atr"}
TrailAtrValues == {USDT(1000)}

\* positions are opened and revalued, both trailing rules are switched on and
\* run, the Risk Manager runs its cycle
NextTrail ==
    \/ \E s \in Symbols, d \in Sides, q \in Quantities, l \in Leverages :
           OpenMarketOrder(s, d, q, l, MaxPositions)
    \/ \E i \in 1..MaxTasks, p \in PriceGrid \cup {NoPrice} : OpenPriceArrives(i, p)
    \/ \E i \in 1..MaxTasks, a \in AtrValues : OpenCommit(i, a)
    \/ Revalue
    \/ \E s \in Symbols, p \in PriceGrid, due \in SUBSET (1..MaxPositions) :
           TickerUpdate(s, p, due)
    \/ \E id \in 1..MaxPositions : EnableTrailingStop(id)
    \/ \E id \in 1..MaxPositions, strategy \in Strategies : StartTrailing(id, strategy)
    \/ \E id \in 1..MaxPositions, atr \in TrailAtrValues : ATRArrives(id, atr)
    \/ UpdateAllTrailings
    \/ \E id \in 1..MaxPositions : ForceBreakeven(id)
    \/ \E id \in 1..MaxPositions : ForceActivation(id)
    \/ RiskCheckCycle
    \/ \E i \in 1..MaxTasks, p \in PriceGrid \cup {NoPrice} : EmergencyPriceArrives(i, p)

SpecTrail == Init /\ [][NextTrail]_vars

IsEngineStep ==
    \/ UpdateAllTrailings
    \/ \E sym \in Symbols, p \in PriceGrid, due \in SUBSET (1..MaxPositions) :
           TickerUpdate(sym, p, due)
    \/ \E id \in 1..MaxPositions :
           \/ ForceBreakeven(id)
           \/ ForceActivation(id)
           \/ \E strategy \in Strategies : StartTrailing(id, strategy)
           \/ \E atr \in TrailAtrValues : ATRArrives(id, atr)

C25_BreakevenMovesStop ==
    [][\A id \in DOMAIN activeTrails \cap DOMAIN activeTrails' :
          (~activeTrails[id].isBreakevenSet /\ activeTrails'[id].isBreakevenSet) =>
              LET t == activeTrails'[id] IN
              IF t.side = "long"
              THEN /\ t.breakevenPrice >= t.entryPrice
                   /\ positions'[id].stopLoss >= t.breakevenPrice
              ELSE /\ t.breakevenPrice <= t.entryPrice
                   /\ positions'[id].stopLoss <= t.breakevenPrice]_vars

CrossedStopLoss(position, price) ==
    /\ position.stopLoss # 0
    /\ IF position.side = "long" THEN price <= position.stopLoss
       ELSE price >= position.stopLoss

CrossedTakeProfit(position, price) ==
    /\ position.takeProfit # 0
    /\ IF position.side = "long" THEN price >= position.takeProfit
       ELSE price <= position.takeProfit

\* no operation of the trader sets a take-profit; the pass is checked with
\* these prices in that field as well
TakeProfits == {0} \cup PriceGrid \cup RiskPriceGrid

C23_TrailsOnlyForOpenPositions ==
    \A id \in DOMAIN activeTrails :
        id \in activePositions /\ positions[id].status = "open"

\* a position that was closed while it had a trailing
C23_ClosedWithTrailing ==
    \E id \in DOMAIN positions :
        /\ positions[id].status = "closed"
        /\ \E k \in DOMAIN trailingHistory : trailingHistory[k] = id
        /\ id \notin DOMAIN activeTrails

----------------------------------------------------------------------------
(* Specification and properties of the Risk Manager                        *)

RiskSides == {"long"}
ProfileUpdates == {[level |-> "low"]}

\* trading, price events and the Risk Manager's timers and public calls
NextRisk ==
    \/ \E s \in Symbols, d \in RiskSides, q \in Quantities, l \in Leverages :
           OpenMarketOrder(s, d, q, l, MaxPositions)
    \/ \E i \in 1..MaxTasks, p \in RiskPriceGrid \cup {NoPrice} : OpenPriceArrives(i, p)
    \/ \E i \in 1..MaxTasks, a \in AtrValues : OpenCommit(i, a)
    \/ \E id \in 1..MaxPositions : ClosePosition(id, "manual_close")
    \/ \E i \in 1..MaxTasks, p \in RiskPriceGrid \cup {NoPrice} : ClosePriceArrives(i, p)
    \/ Revalue
    \/ \E s \in Symbols, p \in RiskPriceGrid, due \in NoTrails : TickerUpdate(s, p, due)
    \/ \E s \in Symbols : CacheExpire(s)
    \/ RiskCheckCycle
    \/ \E i \in 1..MaxTasks, p \in RiskPriceGrid \cup {NoPrice} : EmergencyPriceArrives(i, p)
    \/ ActivateEmergencyMode
    \/ DeactivateEmergencyMode
    \/ CheckDailyReset
    \/ \E updates \in ProfileUpdates : UpdateRiskProfile(updates)

SpecRisk == Init /\ [][NextRisk]_vars

\* C6: while emergency mode is active it is not activated again: no step taken
\* in emergency mode, a trigger of a risk-check cycle or the public
\* activateEmergencyMode, emits another emergency_mode_activated event.
C6_NoActivationWhileActive ==
    [][emergencyMode => emergencyActivations' = emergencyActivations]_vars

\* C17: in every reachable state in which emergency mode is active the risk
\* level is critical.
C17_EmergencyImpliesCritical == emergencyMode => riskProfile.level = "critical"

\* the emergency close with the ticker feed down: every price comes from the
\* network
NextEmergency ==
    \/ \E s \in Symbols, d \in RiskSides, q \in Quantities, l \in Leverages :
           OpenMarketOrder(s, d, q, l, RiskMaxPositions)
    \/ \E i \in 1..MaxTasks, p \in RiskPriceGrid \cup {NoPrice} : OpenPriceArrives(i, p)
    \/ \E i \in 1..MaxTasks, a \in AtrValues : OpenCommit(i, a)
    \/ \E id \in 1..RiskMaxPositions : ClosePosition(id, "manual_close")
    \/ \E i \in 1..MaxTasks, p \in RiskPriceGrid \cup {NoPrice} : ClosePriceArrives(i, p)
    \/ RiskCheckCycle
    \/ \E i \in 1..MaxTasks, p \in RiskPriceGrid \cup {NoPrice} : EmergencyPriceArrives(i, p)
    \/ ActivateEmergencyMode

SpecEmergency == Init /\ [][NextEmergency]_vars

\* C16: while the risk level is critical or emergency mode is active no
\* position is opened: the set of open positions does not grow.
C16_NoOpenWhileCritical ==
    [][(emergencyMode \/ riskProfile.level = "critical") =>
          activePositions' \subseteq activePositions]_vars

\* C8: the emergency close that the daily_loss_limit trigger started has, once
\* it is over, left every position that was open at the activation closed with
\* closeReason "emergency_close".
C8_DailyLossClosesEveryPosition ==
    (emergencyActions.trigger = "daily_loss_limit" /\ emergencyActions.outcome # "none") =>
        \A k \in DOMAIN emergencyActions.snapshot :
            LET id == emergencyActions.snapshot[k] IN
            /\ positions[id].status = "closed"
            /\ positions[id].closeReason = "emergency_close"

\* C9: a close that fails does not end the emergency close: every position of
\* the batch has been attempted when the batch is over.
C9_FailedCloseDoesNotEndBatch ==
    emergencyActions.outcome = "failed" =>
        emergencyActions.attempted = Len(emergencyActions.snapshot)

----------------------------------------------------------------------------
(* Specification and properties of the risk level                          *)

LevelPositions == 5
LevelOpenPrice == USDT(1000)
LevelEntryPrice == USDT(47500)
LevelExitGrid == {USDT(47500), USDT(47000), USDT(46800), USDT(46600),
                  USDT(46400), USDT(46100)}

RECURSIVE OpenMany(_, _)
\* n market orders of one unit at LevelOpenPrice, each run to its end
OpenMany(w, n) ==
    IF n = 0 THEN w
    ELSE LET t == OrderTerms("BTCUSDT", "long", 1, 0, LevelOpenPrice) IN
         OpenMany(ApplyOpen(w, t, calculateATRStopLoss(t.executionPrice, t.side, 0)), n - 1)

\* the trader after one long trade opened at LevelEntryPrice and closed at
\* exit (no trade when exit = NoPrice), with n positions open
TradedWorld(exit, n) ==
    LET w0 == [acct |-> initializeMockAccount, pos |-> <<>>, active |-> {},
               hist |-> <<>>, closed |-> <<>>, opened |-> 0, trails |-> <<>>,
               stopped |-> <<>>]
        t == OrderTerms("BTCUSDT", "long", 1, 0, LevelEntryPrice)
        w1 == ApplyOpen(w0, t, calculateATRStopLoss(t.executionPrice, t.side, 0))
    IN OpenMany(IF exit = NoPrice THEN w0 ELSE ApplyClose(w1, 1, "manual_close", exit), n)

\* the trades of TradedWorld have run since the modules were constructed and
\* no timer of the Risk Manager has fired yet
InitLevel ==
    /\ \E exit \in LevelExitGrid \cup {NoPrice}, n \in 0..LevelPositions :
           LET w == TradedWorld(exit, n) IN
           /\ account = w.acct
           /\ positions = w.pos
           /\ activePositions = w.active
           /\ tradeHistory = w.hist
           /\ closedEvents = w.closed
           /\ openedEvents = w.opened
           /\ activeTrails = w.trails
           /\ trailingHistory = w.stopped
    /\ cache = [s \in Symbols |-> NoPrice]
    /\ tasks = <<>>
    /\ resets = 0
    /\ riskProfile = initializeRiskProfile
    /\ emergencyMode = FALSE
    /\ dailyStats = initializeDailyStats(InitialBalance)
    /\ emergencyActions = [outcome |-> "none", trigger |-> "none",
                           snapshot |-> <<>>, attempted |-> 0]
    /\ emergencyActivations = 0
    /\ days = 0
    /\ sessions = <<>>
    /\ validationCache = {}
    /\ validationHistory = <<>>
    /\ lastAnalysis = NoAnalysis
    /\ signalReturns = <<>>
    /\ signalChanged = <<>>

\* the timers and the public calls of the Risk Manager
NextLevel ==
    \/ RiskCheckCycle
    \/ \E i \in 1..MaxTasks, p \in {LevelOpenPrice, NoPrice} : EmergencyPriceArrives(i, p)
    \/ ActivateEmergencyMode
    \/ DeactivateEmergencyMode
    \/ CheckDailyReset

SpecLevel == InitLevel /\ [][NextLevel]_vars

\* the level as a function of the four inputs
RiskLevelOf(dailyLoss, drawdown, openPositions, emergency) ==
    IF dailyLoss >= 10 \/ drawdown >= 15 \/ emergency THEN "critical"
    ELSE IF dailyLoss >= 8 \/ drawdown >= 12 \/ openPositions >= 5 THEN "high"
    ELSE IF dailyLoss >= 6 \/ drawdown >= 9 \/ openPositions >= 4 THEN "medium"
    ELSE "low"

\* C10: at the end of every risk-check cycle the stored level is the function
\* critical / high / medium / low of the daily loss %, the drawdown % and the
\* number of open positions read in that cycle and of the emergency flag.
C10_LevelIsFunctionOfMetrics ==
    [][RiskCheckCycle =>
          LET m == getCurrentRiskMetrics(updateRiskMetrics(State)) IN
          riskProfile'.level = RiskLevelOf(m.dailyLossPercent, m.drawdownPercent,
                                           m.activePositions, emergencyMode')]_vars

\* a cycle has set the level to high on the number of open positions alone
C10_HighOnPositions ==
    /\ riskProfile.level = "high"
    /\ ~emergencyMode
    /\ Cardinality(activePositions) >= 5
    /\ dailyStats.dailyLossPercent < 6
    /\ account.maxDrawdown < 9

\* C31: the drawdown percentage that a risk-check cycle reads is the decline
\* of the balance from the peak balance at that moment, so that it is 0 when
\* the balance is at its peak.
C31_DrawdownIsCurrentDecline ==
    getCurrentRiskMetrics(updateRiskMetrics(State)).drawdownPercent =
        Percent(account.maxBalance - account.balance, account.maxBalance)

\* C32: of two risk-check cycles that follow one another, 10 s apart, with
\* the level at medium in both, at most one logs the warning of the medium
\* level.
C32_MediumWarningThrottled ==
    LET first == checkEmergencyTriggers(checkRiskLevels(updateRiskMetrics(State)))
        second == checkEmergencyTriggers(checkRiskLevels(updateRiskMetrics(
                      executeRiskActions(first))))
    IN ~(warnsAtMedium(first) /\ warnsAtMedium(second))

LevelTickGrid == {USDT(990), USDT(1010)}

\* the risk-check cycle over positions that the ticker revalues
NextReduce ==
    \/ RiskCheckCycle
    \/ \E i \in 1..MaxTasks, p \in {LevelOpenPrice, NoPrice} : EmergencyPriceArrives(i, p)
    \/ \E s \in Symbols, p \in LevelTickGrid, due \in NoTrails : TickerUpdate(s, p, due)
    \/ Revalue

SpecReduce == InitLevel /\ [][NextReduce]_vars

\* C33: a risk-check cycle whose level is high leaves each of the two open
\* positions with the lowest negative unrealizedPnL with its stop-loss at half
\* its former distance from the current price, and leaves the stop-loss of
\* every other position as it was.
C33_HighLevelTightensStops ==
    LET before == checkEmergencyTriggers(checkRiskLevels(updateRiskMetrics(State)))
        after == executeRiskActions(before)
    IN before.r.profile.level = "high" =>
           \A id \in before.w.active :
               after.w.pos[id].stopLoss =
                   IF id \in riskyPositions(before.w)
                   THEN calculateTighterStopLoss(before.w.pos[id])
                   ELSE before.w.pos[id].stopLoss

\* C34: a risk-check cycle in which margin is in use and equity / margin * 100
\* is below 200, equity of zero or less included, pushes the margin_call
\* trigger and ends with emergency mode active; with no margin in use it does
\* not push margin_call.
C34_MarginCallBelow200 ==
    LET st == checkRiskLevels(updateRiskMetrics(State))
        raised == \E k \in DOMAIN EmergencyTriggers(st) :
                      EmergencyTriggers(st)[k] = "margin_call"
    IN /\ (account.margin > 0 /\ account.equity * 100 < MarginCallLevel * account.margin) =>
              raised /\ checkEmergencyTriggers(st).r.emergency
       /\ account.margin = 0 => ~raised

\* the level that the thresholds give for the metrics of the state
JustifiedLevel ==
    calculateCurrentRiskLevel(getCurrentRiskMetrics(updateRiskMetrics(State)), emergencyMode)

\* C37: the level set at initialization is the one the thresholds give for
\* the metrics, and every step that changes the stored level sets it to the
\* level the thresholds give for the metrics after the step, or to critical
\* while activating emergency mode.
C37_LevelChangesAreJustified ==
    /\ riskProfile.level = JustifiedLevel
    /\ [][riskProfile'.level # riskProfile.level =>
              \/ riskProfile'.level = JustifiedLevel'
              \/ /\ ~emergencyMode /\ emergencyMode'
                 /\ riskProfile'.level = "critical"]_vars

\* C30: a risk-check cycle pushes the daily_loss_limit trigger only when the
\* balance is below the starting balance of the day by maxDailyLoss percent
\* or more, and on a day on which the balance is not below the starting
\* balance the daily-loss metric has no part in the level: the level is the
\* one that a daily loss of 0 gives.
C30_DailyLossOnlyOnLosingDay ==
    LET st == updateRiskMetrics(State)
        m == getCurrentRiskMetrics(st)
        start == dailyStats.startingBalance
    IN /\ (\E k \in DOMAIN EmergencyTriggers(st) :
               EmergencyTriggers(st)[k] = "daily_loss_limit") =>
              (start - account.balance) * 100 >= MaxDailyLoss * start
       /\ account.balance >= start =>
              calculateCurrentRiskLevel(m, emergencyMode) =
                  calculateCurrentRiskLevel([m EXCEPT !.dailyLossPercent = 0], emergencyMode)

----------------------------------------------------------------------------
(* Specification and properties of the account under orders of several     *)
(* sizes and leverages                                                     *)

AccountQuantities == {1, 2}
AccountLeverages == {0, 25}

\* orders of one or two units, with the default leverage or with 25x, and
\* closes, every price coming from the network
NextAccount ==
    \/ \E s \in Symbols, d \in RiskSides, q \in AccountQuantities, l \in AccountLeverages :
           OpenMarketOrder(s, d, q, l, RiskMaxPositions)
    \/ \E i \in 1..MaxTasks, p \in RiskPriceGrid \cup {NoPrice} : OpenPriceArrives(i, p)
    \/ \E i \in 1..MaxTasks, a \in AtrValues : OpenCommit(i, a)
    \/ \E id \in 1..RiskMaxPositions : ClosePosition(id, "manual_close")
    \/ \E i \in 1..MaxTasks, p \in RiskPriceGrid \cup {NoPrice} : ClosePriceArrives(i, p)

SpecAccount == Init /\ [][NextAccount]_vars

\* C13: in every reachable state the margin in use is at most the balance.
C13_MarginAtMostBalance == account.margin <= account.balance

\* a step in which an order that has its price fails the margin check of
\* openMarketOrder and is dropped
IsMarginRejection ==
    \E i \in DOMAIN tasks, p \in RiskPriceGrid :
        /\ tasks[i].pc = "open_price"
        /\ MarginCheckFails(OrderTerms(tasks[i].symbol, tasks[i].side, tasks[i].qty,
                                       tasks[i].lev, p).marginRequired,
                            account.freeMargin)
        /\ tasks' = RemoveAt(tasks, i)

\* C19: an order whose required margin exceeds the free margin is rejected:
\* the step that drops it leaves the account, the positions, the open set, the
\* trade history and the position_opened events unchanged, and no step opens
\* a position whose margin exceeds the free margin of the account.
C19_NoOpenBeyondFreeMargin ==
    [][/\ IsMarginRejection =>
             UNCHANGED <<account, positions, activePositions, tradeHistory, openedEvents>>
       /\ \A id \in activePositions' \ activePositions :
             /\ positions'[id].marginUsed <= account.freeMargin
             /\ openedEvents' = openedEvents + 1]_vars

\* C27: however the openMarketOrder calls in flight interleave, the margin
\* they reserve never exceeds the free margin: freeMargin is never negative.
C27_FreeMarginNeverNegative == account.freeMargin >= 0

\* C28: a position of size s opened at the market price p with leverage L has
\* marginUsed = s * p / L, and when its mark price is moved to q its
\* unrealizedPnL is (q - p) * s for a long and (p - q) * s for a short.  The
\* market price of the order is notionalValue / size.
C28_MarginAndPnLFromMarketPrice ==
    \A id \in activePositions :
        LET position == positions[id]
            p == position.notionalValue \div position.size
        IN /\ position.marginUsed = (position.size * p) \div position.leverage
           /\ \A q \in RiskPriceGrid :
                  updatePositionPrices(World, position.symbol, q).pos[id].unrealizedPnL =
                      IF position.side = "long" THEN (q - p) * position.size
                      ELSE (p - q) * position.size

\* C20: an order with a leverage above maxLeverage or below zero is rejected,
\* so that no position has a leverage above maxLeverage or a negative margin.
C20_LeverageWithinLimit ==
    \A id \in DOMAIN positions :
        /\ positions[id].leverage <= MaxLeverage
        /\ positions[id].marginUsed >= 0

----------------------------------------------------------------------------
(* Specification and properties of the periodic passes when the body of a  *)
(* unit of work throws                                                     *)

BatchStrategies == {"conservative"}

\* two positions are opened at the cached price or at a fetched one, the
\* ticker moves, trailings are started, and the two timers run, with and
\* without an error in the body of one unit
NextBatch ==
    \/ \E s \in Symbols, d \in RiskSides, q \in Quantities, l \in Leverages :
           OpenMarketOrder(s, d, q, l, RiskMaxPositions)
    \/ \E i \in 1..MaxTasks, p \in RiskPriceGrid : OpenPriceArrives(i, p)
    \/ \E i \in 1..MaxTasks, a \in AtrValues : OpenCommit(i, a)
    \/ \E s \in Symbols, p \in RiskPriceGrid, due \in SUBSET (1..RiskMaxPositions) :
           TickerUpdate(s, p, due)
    \/ Revalue
    \/ \E id \in 1..RiskMaxPositions : RevalueThrows({id})
    \/ \E id \in 1..RiskMaxPositions, strategy \in BatchStrategies : StartTrailing(id, strategy)
    \/ UpdateAllTrailings
    \/ \E id \in 1..RiskMaxPositions : UpdateAllTrailingsThrows({id})

SpecBatch == Init /\ [][NextBatch]_vars

\* C18: in every reachable state, a revaluation pass in which the body throws
\* for one open position still revalues every other open position that has a
\* cached price (or closes it on its stop) and still recomputes equity and
\* margin level, and a trailing pass in which updateTrailing throws for one
\* trailing still hands every other trailing the price of its open position.
C18_ThrowingUnitIsIsolated ==
    \A id \in activePositions :
        LET w == updateActivePositionsThrowing(World, cache, {id})
            t == UpdateTrailingsUntilThrow(World, DOMAIN activeTrails, {id})
        IN /\ \A o \in activePositions \ {id} :
                  cache[positions[o].symbol] # NoPrice =>
                      \/ o \notin w.active
                      \/ w.pos[o].currentPrice = cache[positions[o].symbol]
           /\ w.acct.equity = w.acct.balance + getCurrentUnrealizedPnL(w)
           /\ w.acct.marginLevel = MarginLevel(w.acct.equity, w.acct.margin)
           /\ id \in DOMAIN activeTrails =>
                  \A o \in (DOMAIN activeTrails \cap activePositions) \ {id} :
                      /\ o \in DOMAIN t.trails
                      /\ t.trails[o].currentPrice = positions[o].currentPrice

----------------------------------------------------------------------------
(* Specification and properties of the Signal Generator                    *)

MaConfidences == {10}
SignalSymbols == {"", "BTCUSDT"}

\* what the indicators can find on a timeframe with enough candles
Findings ==
    {in \in [candles : {"enough"}, nadaraya : {"none", "upper", "lower"},
             rsi : {"neutral", "oversold", "overbought"}, divergence : BOOLEAN,
             ma : {"none", "bullish", "bearish"}, maConfidence : MaConfidences \cup {0}] :
        /\ in.divergence => in.rsi # "neutral"
        /\ in.maConfidence = 0 <=> in.ma = "none"}

\* a timeframe of multiData: candles missing, too few for every indicator,
\* or enough
TimeframeData ==
    Findings \cup {Found([candles |-> c]) : c \in {"missing", "few"}}

\* analyzeSymbol is called with or without a symbol, with or without data
NextSignal ==
    /\ Len(signalReturns) < MaxAnalyses
    /\ \E symbol \in SignalSymbols, multiData \in [Timeframes -> TimeframeData] \cup {NoData} :
           AnalyzeSymbol(symbol, multiData)

SpecSignal == Init /\ [][NextSignal]_vars

\* the same findings on the three timeframes
LiveData == {[tf \in Timeframes |-> in] : in \in Findings}

\* an analysis and a live update of it
NextLive ==
    \/ \E symbol \in SignalSymbols, multiData \in LiveData \cup {NoData} :
           AnalyzeSymbol(symbol, multiData)
    \/ \E symbol \in SignalSymbols, multiData \in LiveData \cup {NoData} :
           UpdateSignalLive(symbol, multiData)

SpecLive == Init /\ [][NextLive]_vars

\* C36: a live update that resolves to an analysis emits one signal_changed
\* event with the recommendation of the previous analysis of the symbol and
\* the new one when the two differ, and none when they are equal.
C36_SignalChangedOnDifference ==
    [][\A symbol \in SignalSymbols, multiData \in LiveData :
          (UpdateSignalLive(symbol, multiData) /\ analyzeSymbol(symbol, multiData) # Null) =>
              signalChanged' =
                  IF analyzeSymbol(symbol, multiData).recommendation # lastAnalysis.recommendation
                  THEN Append(signalChanged,
                              [oldSignal |-> lastAnalysis.recommendation,
                               newSignal |-> analyzeSymbol(symbol, multiData).recommendation])
                  ELSE signalChanged]_vars

\* 0.4 * consensus ratio + 0.3 * fraction of the indicators that fired +
\* 0.3 * average strength tier, in 1/9000
WeightedBlend(timeframeAnalysis) ==
    LET signals == {tf \in Timeframes : timeframeAnalysis[tf].signal # "neutral"}
        longCount == Cardinality({tf \in signals : timeframeAnalysis[tf].signal = "long"})
        shortCount == Cardinality(signals) - longCount
        most == IF longCount > shortCount THEN longCount ELSE shortCount
    IN (IF signals = {} THEN 0 ELSE (3600 * most) \div Cardinality(signals))
       + 300 * SumOver([tf \in Timeframes |-> Cardinality(timeframeAnalysis[tf].signals)],
                       Timeframes)
       + 90 * SumOver([tf \in Timeframes |-> StrengthScore(timeframeAnalysis[tf])],
                      Timeframes)

\* C38: the confidence of every analysis is the weighted blend, lies between
\* 0 and 1 (9000 here), and is 1 when the three timeframes agree, are very
\* strong and have all three indicators fired.
C38_ConfidenceIsWeightedBlend ==
    \A k \in DOMAIN signalReturns :
        LET analysis == signalReturns[k].value IN
        analysis # Null =>
            /\ analysis.confidence = WeightedBlend(analysis.timeframes)
            /\ analysis.confidence >= 0 /\ analysis.confidence <= 9000
            /\ (\A tf \in Timeframes :
                    /\ analysis.timeframes[tf].signal = analysis.timeframes["4h"].signal
                    /\ analysis.timeframes[tf].signal # "neutral"
                    /\ analysis.timeframes[tf].strength = "very_strong"
                    /\ Cardinality(analysis.timeframes[tf].signals) = 3)
                   => analysis.confidence = 9000

\* C21: every call of analyzeSymbol resolves to an analysis object, never to
\* null, and when no timeframe has enough candles the analysis is neutral with
\* confidence 0.
C21_AlwaysAnAnalysis ==
    \A k \in DOMAIN signalReturns :
        LET r == signalReturns[k] IN
        /\ r.value # Null
        /\ (r.multiData # NoData /\ \A tf \in Timeframes : r.multiData[tf].candles # "enough")
               => r.value.recommendation = "neutral" /\ r.value.confidence = 0

====
